---- MODULE Spec2Model ----
(***************************************************************************)
(* Model of sudoku-web/src/App.tsx: the conflict checker (checkErrors,     *)
(* isCleared), the randomized backtracking filler (isSafe, fillBoard), the *)
(* puzzle generator (generateSudokuPuzzle, cloneBoard) and the App         *)
(* component's state handlers.                                             *)
(*                                                                         *)
(* The grid is Box*Box cells wide with Box x Box boxes.  The source has    *)
(* Box = 3 (a 9x9 grid); the model is explored with a smaller Box, and     *)
(* every literal 9 / 3 / 81 of the source is written N / Box / N*N.        *)
(* Rows and columns are 0-based as in the source.                          *)
(***************************************************************************)
EXTENDS Integers, Sequences, FiniteSets, TLC

\* Side of a box (3 in the source).
Box == 2
\* Side of the grid (9 in the source).
N == Box * Box
\* JavaScript null: an empty cell.
null == 0

Idx == 0 .. (N - 1)
Nums == 1 .. N
Cells == Idx \X Idx

VARIABLES
  heap,      \* the row arrays that exist: heap[a] is the row at address a
  board,     \* generateSudokuPuzzle/fillBoard's `board`: N row addresses
  stack,     \* active fillBoard calls that found an empty cell
  pc,        \* position of the generator / filler
  retval,    \* value returned by the fillBoard call that returned last
  input,     \* the grid fillBoard was first called with (history)
  depthMax,  \* most fillBoard activations alive at once so far (history)
  emptyCells,\* generateSudokuPuzzle's parameter
  count,     \* generateSudokuPuzzle's `count`
  cells,     \* the part of the shuffled `cells` array not yet iterated
  puzzle,    \* the grid generateSudokuPuzzle returned: N row addresses
  solution,  \* the grid as fillBoard left it (history)
  initial,   \* App state `initial`
  current,   \* App state `current`
  selected,  \* App state `selected`: << >> for null, or <<row, col>>
  errors,    \* App state `errors`
  cleared,   \* App state `cleared`
  paused,    \* App state `paused`
  resumeAvailable, \* App state `resumeAvailable`
  difficulty,\* App state `difficulty`
  saved,     \* localStorage[SAVE_KEY]: << >> when absent, else <<data>>
  mounted,   \* the effects of the first render have run
  pending,   \* a render with a new `current` awaits its effects
  moves,     \* handleInput calls that changed the state so far (bounded)
  games      \* handleNewGame calls and page reloads so far (bounded)

fillVars == <<heap, board, stack, pc, retval, input, depthMax>>
genVars == <<emptyCells, count, cells, puzzle, solution>>
appVars == <<initial, current, selected, errors, cleared, paused,
             resumeAvailable, difficulty, saved, mounted, pending, moves,
             games>>
vars == <<fillVars, genVars, appVars>>

----------------------------------------------------------------------------
(* Grids as values, and grids in the heap *)

\* Array(9).fill(v)
Row(v) == [c \in Idx |-> v]

\* The value of the grid whose rows are at the addresses b.
Deref(h, b) == [r \in Idx |-> h[b[r]]]

\* emptyBoard(): N fresh rows of N nulls each; returns <<heap, addresses>>.
emptyBoard(h) ==
  LET base == Len(h)
      h2[k \in 0 .. N] == IF k = 0 THEN h ELSE Append(h2[k - 1], Row(null))
  IN  <<h2[N], [r \in Idx |-> base + r + 1]>>

\* cloneBoard as it would be if it copied the outer array only ([...b]).
cloneBoard_Shallow(h, b) == <<h, b>>

\* cloneBoard(b): b.map(row => [...row]): a new array of new rows.
cloneBoard(h, b) ==
  LET base == Len(h)
      h2[k \in 0 .. N] == IF k = 0 THEN h ELSE Append(h2[k - 1], h[b[k - 1]])
  IN  <<h2[N], [r \in Idx |-> base + r + 1]>>

\* board[r][c] = v on the row array itself.
Store(h, b, r, c, v) == [h EXCEPT ![b[r]][c] = v]

AllEmpty == [r \in Idx |-> Row(null)]

Min(a, b) == IF a < b THEN a ELSE b

----------------------------------------------------------------------------
(* checkErrors, isCleared *)

\* checkErrors as it would be without the scan of the box.
checkErrors_NoBox(g) ==
  [r \in Idx |-> [c \in Idx |->
     LET v == g[r][c]
     IN  IF v = null THEN FALSE
         ELSE \/ \E i \in Idx : i # c /\ g[r][i] = v
              \/ \E i \in Idx : i # r /\ g[i][c] = v]]

checkErrors(g) ==
  [r \in Idx |-> [c \in Idx |->
     LET v == g[r][c]
         br == (r \div Box) * Box
         bc == (c \div Box) * Box
     IN  IF v = null THEN FALSE
         ELSE \/ \E i \in Idx : i # c /\ g[r][i] = v
              \/ \E i \in Idx : i # r /\ g[i][c] = v
              \/ \E dr \in 0 .. (Box - 1), dc \in 0 .. (Box - 1) :
                   /\ (br + dr # r \/ bc + dc # c)
                   /\ g[br + dr][bc + dc] = v]]

\* isCleared as it would be if it tested the cells only, not the flags.
isCleared_CellsOnly(g, e) ==
  \A r \in Idx, c \in Idx : g[r][c] # null

isCleared(g, e) ==
  \A r \in Idx, c \in Idx : ~(g[r][c] = null \/ e[r][c])

----------------------------------------------------------------------------
(* isSafe, fillBoard *)

\* isSafe as it would be with the box test left out.
isSafe_NoBox(g, row, col, num) ==
  \A x \in Idx : ~(g[row][x] = num \/ g[x][col] = num)

\* isSafe as it would be with startCol computed from row.
isSafe_RowBox(g, row, col, num) ==
  LET startRow == (row \div Box) * Box
      startCol == (row \div Box) * Box
  IN  /\ \A x \in Idx : ~(g[row][x] = num \/ g[x][col] = num)
      /\ \A i \in 0 .. (Box - 1), j \in 0 .. (Box - 1) :
           g[startRow + i][startCol + j] # num

isSafe(g, row, col, num) ==
  LET startRow == (row \div Box) * Box
      startCol == (col \div Box) * Box
  IN  /\ \A x \in Idx : ~(g[row][x] = num \/ g[x][col] = num)
      /\ \A i \in 0 .. (Box - 1), j \in 0 .. (Box - 1) :
           g[startRow + i][startCol + j] # num

\* The cells of g that are null, as row-major indices row*N + col.
EmptyIdx(g) == { k \in 0 .. (N * N - 1) : g[k \div N][k % N] = null }

\* The first null cell in fillBoard's row-major scan (g has one).
FirstEmpty(g) ==
  LET k == CHOOSE k \in EmptyIdx(g) : \A m \in EmptyIdx(g) : k <= m
  IN  <<k \div N, k % N>>

Top == stack[Len(stack)]
Pop == SubSeq(stack, 1, Len(stack) - 1)

\* fillBoard activations alive: the frames, and the call being entered.
Activations == Len(stack) + (IF pc = "call" THEN 1 ELSE 0)

NoteDepth(d) == IF d > depthMax THEN d ELSE depthMax

\* fillBoard is entered: the scan for the first null cell.  With none it
\* returns true; otherwise shuffle([1..9]) is drawn.  The shuffled array is
\* held as the set of candidates not yet iterated: Fisher-Yates can give
\* every order, and the order is resolved as the loop advances.  The frame
\* also records, as history, the grid the call was entered with.
FillEnter ==
  /\ pc = "call"
  /\ LET g == Deref(heap, board) IN
       IF EmptyIdx(g) = {}
         THEN /\ pc' = "ret"
              /\ retval' = TRUE
              /\ stack' = stack
         ELSE /\ pc' = "loop"
              /\ stack' = Append(stack, [row |-> FirstEmpty(g)[1],
                                         col |-> FirstEmpty(g)[2],
                                         untried |-> Nums,
                                         entry |-> g])
              /\ retval' = retval
  /\ depthMax' = depthMax
  /\ UNCHANGED <<heap, board, input, genVars, appVars>>

\* The for-of loop advances to the next candidate isSafe accepts, places it
\* and calls fillBoard.  Candidates isSafe rejects change nothing; the loop
\* passes the rejected ones that are still ahead in the same step.
FillPlace ==
  /\ pc = "loop"
  /\ LET f == Top
         g == Deref(heap, board)
     IN  \E num \in f.untried :
           /\ isSafe(g, f.row, f.col, num)
           /\ heap' = Store(heap, board, f.row, f.col, num)
           /\ stack' = [stack EXCEPT ![Len(stack)].untried =
                          { u \in f.untried :
                              u # num /\ isSafe(g, f.row, f.col, u) }]
  /\ pc' = "call"
  /\ depthMax' = NoteDepth(Len(stack) + 1)
  /\ UNCHANGED <<board, retval, input, genVars, appVars>>

\* The loop runs out: no candidate left that isSafe accepts; return false.
FillExhaust ==
  /\ pc = "loop"
  /\ LET f == Top
         g == Deref(heap, board)
     IN  \A num \in f.untried : ~isSafe(g, f.row, f.col, num)
  /\ stack' = Pop
  /\ retval' = FALSE
  /\ pc' = "ret"
  /\ UNCHANGED <<heap, board, input, depthMax, genVars, appVars>>

\* The return from a recursive call as it would be without
\* `board[row][col] = null`.
FillReturn_NoUndo ==
  /\ pc = "ret"
  /\ Len(stack) > 0
  /\ IF retval
       THEN /\ stack' = Pop
            /\ UNCHANGED <<heap, pc>>
       ELSE /\ heap' = heap
            /\ pc' = "loop"
            /\ stack' = stack
  /\ UNCHANGED <<board, retval, input, depthMax, genVars, appVars>>

\* A recursive call has returned to `if (fillBoard(board)) return true;
\* board[row][col] = null;`.
FillReturn ==
  /\ pc = "ret"
  /\ Len(stack) > 0
  /\ IF retval
       THEN /\ stack' = Pop
            /\ UNCHANGED <<heap, pc>>
       ELSE /\ heap' = Store(heap, board, Top.row, Top.col, null)
            /\ pc' = "loop"
            /\ stack' = stack
  /\ UNCHANGED <<board, retval, input, depthMax, genVars, appVars>>

\* The outermost fillBoard call has returned to its caller.
FillDone ==
  /\ pc = "ret"
  /\ Len(stack) = 0
  /\ pc' = "done"
  /\ UNCHANGED <<heap, board, stack, retval, input, depthMax, genVars, appVars>>

\* The App component is not mounted.
AppIdle ==
  /\ initial = << >>
  /\ current = << >>
  /\ selected = << >>
  /\ errors = << >>
  /\ cleared = FALSE
  /\ paused = FALSE
  /\ resumeAvailable = FALSE
  /\ difficulty = "normal"
  /\ saved = << >>
  /\ mounted = FALSE
  /\ pending = FALSE
  /\ moves = 0
  /\ games = 0

\* generateSudokuPuzzle is not running.
GenIdle ==
  /\ emptyCells = 0
  /\ count = 0
  /\ cells = {}
  /\ puzzle = << >>
  /\ solution = << >>

FillNext == FillEnter \/ FillPlace \/ FillExhaust \/ FillReturn \/ FillDone

\* fillBoard(emptyBoard())
FillInit ==
  /\ heap = emptyBoard(<< >>)[1]
  /\ board = emptyBoard(<< >>)[2]
  /\ stack = << >>
  /\ pc = "call"
  /\ retval = FALSE
  /\ input = Deref(heap, board)
  /\ depthMax = 1
  /\ GenIdle
  /\ AppIdle

SpecFill == FillInit /\ [][FillNext]_vars /\ WF_vars(FillNext)

----------------------------------------------------------------------------
(* fillBoard on pre-filled grids *)

\* Most cells of the solved sample grid that an input grid overwrites.
MaxEdits == 3

\* A valid filled grid for any Box: row r is the first row rotated.
Solved == [r \in Idx |-> [c \in Idx |->
             (((r % Box) * Box + (r \div Box) + c) % N) + 1]]

\* Solved mirrored at its diagonal: another valid filled grid.
Transposed == [r \in Idx |-> [c \in Idx |-> Solved[c][r]]]

\* The grids that differ from Solved in at most k cells (a cell may be set
\* to any number or to null).
Edited[k \in 0 .. (N * N)] ==
  IF k = 0 THEN {Solved}
  ELSE Edited[k - 1] \cup
       { [g EXCEPT ![rc[1]][rc[2]] = v] :
           g \in Edited[k - 1], rc \in Cells, v \in 0 .. N }

\* A heap holding exactly the rows of the value grid g, and its addresses.
HeapOf(g) == [a \in 1 .. N |-> g[a - 1]]
AddrOf == [r \in Idx |-> r + 1]

\* fillBoard(g) for a caller-supplied grid g.
PreInit ==
  /\ input \in Edited[MaxEdits]
  /\ heap = HeapOf(input)
  /\ board = AddrOf
  /\ stack = << >>
  /\ pc = "call"
  /\ retval = FALSE
  /\ depthMax = 1
  /\ GenIdle
  /\ AppIdle

SpecFillPre == PreInit /\ [][FillNext]_vars

MaxGiven == 1

\* The grids with at most k given cells, all other cells null.
Given[k \in 0 .. (N * N)] ==
  IF k = 0 THEN {AllEmpty}
  ELSE Given[k - 1] \cup
       { [g EXCEPT ![rc[1]][rc[2]] = v] :
           g \in Given[k - 1], rc \in Cells, v \in Nums }

\* fillBoard(g) for a caller-supplied grid g that is almost empty.
GivenInit ==
  /\ input \in Given[MaxGiven]
  /\ heap = HeapOf(input)
  /\ board = AddrOf
  /\ stack = << >>
  /\ pc = "call"
  /\ retval = FALSE
  /\ depthMax = 1
  /\ GenIdle
  /\ AppIdle

\* fillBoard on almost full and on almost empty grids.
SpecFillUndo == (PreInit \/ GivenInit) /\ [][FillNext]_vars

----------------------------------------------------------------------------
(* generateSudokuPuzzle *)

\* Largest blank count below N*N that generateSudokuPuzzle is called with.
MaxBlank == 2

\* `if (count >= emptyCells) break;` as it would be with > for >=.
CarveBreaks_Late == count > emptyCells

\* `if (count >= emptyCells) break;`
CarveBreaks == count >= emptyCells

\* generateSudokuPuzzle(emptyCells) is entered: emptyBoard(), then the call
\* of fillBoard(board).
GenInit ==
  /\ heap = emptyBoard(<< >>)[1]
  /\ board = emptyBoard(<< >>)[2]
  /\ stack = << >>
  /\ pc = "call"
  /\ retval = FALSE
  /\ input = Deref(heap, board)
  /\ depthMax = 1
  /\ emptyCells \in 0 .. MaxBlank
  /\ count = 0
  /\ cells = {}
  /\ puzzle = << >>
  /\ solution = << >>
  /\ AppIdle

\* generateSudokuPuzzle(emptyCells) at the point where fillBoard(board) has
\* returned true and left the sample grid Solved, one of the grids it can
\* leave.  From here the blank counts around N*N are explored, which take
\* the carving loop through every subset of the cells.
GenInitFilled ==
  /\ heap = HeapOf(Solved)
  /\ board = AddrOf
  /\ stack = << >>
  /\ pc = "done"
  /\ retval = TRUE
  /\ input = AllEmpty
  /\ depthMax = N * N + 1
  /\ emptyCells \in (N * N - 1) .. (N * N + 1)
  /\ count = 0
  /\ cells = {}
  /\ puzzle = << >>
  /\ solution = << >>
  /\ AppIdle

\* let count = 0; const cells = shuffle([0..80]).  The result of fillBoard
\* is not looked at.  The shuffled array is held as the set of indices not
\* yet iterated.
GenShuffle ==
  /\ pc = "done"
  /\ count' = 0
  /\ cells' = 0 .. (N * N - 1)
  /\ solution' = Deref(heap, board)
  /\ pc' = "carve"
  /\ UNCHANGED <<heap, board, stack, retval, input, depthMax, emptyCells,
                 puzzle, appVars>>

\* One iteration of `for (const idx of cells)` that does not break.
GenCarve ==
  /\ pc = "carve"
  /\ ~CarveBreaks
  /\ \E idx \in cells :
       LET r == idx \div N
           c == idx % N
       IN  /\ cells' = cells \ {idx}
           /\ IF Deref(heap, board)[r][c] # null
                THEN /\ heap' = Store(heap, board, r, c, null)
                     /\ count' = count + 1
                ELSE UNCHANGED <<heap, count>>
  /\ UNCHANGED <<board, stack, pc, retval, input, depthMax, emptyCells,
                 puzzle, solution, appVars>>

\* The loop ends, by break or at the end of the array:
\* return cloneBoard(board).
GenReturn ==
  /\ pc = "carve"
  /\ CarveBreaks \/ cells = {}
  /\ heap' = cloneBoard(heap, board)[1]
  /\ puzzle' = cloneBoard(heap, board)[2]
  /\ pc' = "returned"
  /\ UNCHANGED <<board, stack, retval, input, depthMax, emptyCells, count,
                 cells, solution, appVars>>

GenNext == FillNext \/ GenShuffle \/ GenCarve \/ GenReturn

SpecGen == (GenInit \/ GenInitFilled) /\ [][GenNext]_vars

----------------------------------------------------------------------------
(* The App component *)

\* Most handleInput calls in one behaviour.
MaxMoves == 2
\* Most handleNewGame calls and page reloads, together, in one behaviour.
MaxGames == 2

\* The samplePuzzle literal of the source (0 for null).
samplePuzzle9 ==
  << <<5,3,0,0,7,0,0,0,0>>,
     <<6,0,0,1,9,5,0,0,0>>,
     <<0,9,8,0,0,0,0,6,0>>,
     <<8,0,0,0,6,0,0,0,3>>,
     <<4,0,0,8,0,3,0,0,1>>,
     <<7,0,0,0,2,0,0,0,6>>,
     <<0,6,0,0,0,0,2,8,0>>,
     <<0,0,0,4,1,9,0,0,5>>,
     <<0,0,0,0,8,0,0,7,9>> >>

\* samplePuzzle: the literal when the grid is 9x9; for another Box, the
\* sample grid Solved with every second cell empty.
samplePuzzle ==
  IF N = 9
    THEN [r \in Idx |-> [c \in Idx |-> samplePuzzle9[r + 1][c + 1]]]
    ELSE [r \in Idx |-> [c \in Idx |->
            IF (r + c) % 2 = 0 THEN Solved[r][c] ELSE null]]

\* The completion of the samplePuzzle literal.
sampleSolution9 ==
  << <<5,3,4,6,7,8,9,1,2>>,
     <<6,7,2,1,9,5,3,4,8>>,
     <<1,9,8,3,4,2,5,6,7>>,
     <<8,5,9,7,6,1,4,2,3>>,
     <<4,2,6,8,5,3,7,9,1>>,
     <<7,1,3,9,2,4,8,5,6>>,
     <<9,6,1,5,3,7,2,8,4>>,
     <<2,8,7,4,1,9,6,3,5>>,
     <<3,4,5,2,8,6,1,7,9>> >>

\* A completion of samplePuzzle.
sampleSolution ==
  IF N = 9
    THEN [r \in Idx |-> [c \in Idx |-> sampleSolution9[r + 1][c + 1]]]
    ELSE Solved

\* handleNewGame's emptyCells for a difficulty: 30, 40 and 50 of the 81
\* cells, in proportion for another grid size.
emptyCellsOf(d) ==
  LET of81 == IF d = "easy" THEN 30 ELSE IF d = "hard" THEN 50 ELSE 40
  IN  (of81 * N * N) \div 81

\* An outcome of shuffle([0..N*N-1]): the indices in steps of k from 0
\* (k and N*N have no common factor).
StrideOrder(k) == [i \in 1 .. (N * N) |-> ((i - 1) * k) % (N * N)]

\* The outcomes of shuffle that handleNewGame's puzzles are drawn with.
ShuffleSamples == { StrideOrder(N + 1), StrideOrder(N * N - 1) }

\* The carving loop of generateSudokuPuzzle on the value grid g for the
\* shuffled array order, from its i-th element with count cnt.
RECURSIVE CarveLoop(_, _, _, _, _)
CarveLoop(g, order, i, cnt, n) ==
  IF i > Len(order) \/ cnt >= n THEN g
  ELSE LET r == order[i] \div N
           c == order[i] % N
       IN  IF g[r][c] # null
             THEN CarveLoop([g EXCEPT ![r][c] = null], order, i + 1,
                            cnt + 1, n)
             ELSE CarveLoop(g, order, i + 1, cnt, n)

\* Values generateSudokuPuzzle(n) can return: the filled grid Solved carved
\* in one of the sampled orders.
generateSudokuPuzzle(n) ==
  { CarveLoop(Solved, order, 1, 0, n) : order \in ShuffleSamples }

\* What JSON.stringify({initial, current, ...}) stores of the grids.
SaveData == [initial |-> initial, current |-> current]

\* A game left in localStorage by an earlier session: the sample puzzle,
\* played up to its last MaxMoves empty cells.
EarlierSave ==
  LET left == { k \in EmptyIdx(samplePuzzle) :
                  Cardinality({ m \in EmptyIdx(samplePuzzle) : m <= k })
                    <= MaxMoves }
  IN  [initial |-> samplePuzzle,
       current |-> [r \in Idx |-> [c \in Idx |->
                      IF r * N + c \in left THEN null
                      ELSE sampleSolution[r][c]]]]

\* useState initial values; nothing has run yet.
AppInit ==
  /\ initial = samplePuzzle
  /\ current = samplePuzzle
  /\ selected = << >>
  /\ errors = checkErrors(samplePuzzle)
  /\ cleared = FALSE
  /\ paused = FALSE
  /\ resumeAvailable = FALSE
  /\ difficulty = "normal"
  /\ saved \in { << >>, <<EarlierSave>> }
  /\ mounted = FALSE
  /\ pending = FALSE
  /\ moves = 0
  /\ games = 0
  /\ heap = << >>
  /\ board = << >>
  /\ stack = << >>
  /\ pc = "idle"
  /\ retval = FALSE
  /\ input = << >>
  /\ depthMax = 0
  /\ GenIdle

\* Handlers run between renders whose effects have run.
Settled == mounted /\ ~pending

\* The error/clear effect as it would be if it read the `errors` state of
\* the render for isCleared instead of the errs just computed.
RecomputeEffect_StaleErrors ==
  /\ errors' = checkErrors(current)
  /\ cleared' = isCleared(current, errors)

\* The error/clear effect: errs = checkErrors(current); setErrors(errs);
\* setCleared(isCleared(current, errs)).
RecomputeEffect ==
  /\ errors' = checkErrors(current)
  /\ cleared' = isCleared(current, checkErrors(current))

\* The effects of a render that has a new `current`: the save effect, then
\* the error/clear effect.
Effects ==
  /\ mounted
  /\ pending
  /\ saved' = <<SaveData>>
  /\ RecomputeEffect
  /\ pending' = FALSE
  /\ UNCHANGED <<initial, current, selected, paused, resumeAvailable,
                 difficulty, mounted, moves, games, fillVars, genVars>>

\* The effects of the first render, in order: load the saved game (its
\* setState calls take effect with the next render), save the state of this
\* render, compute errors and cleared of this render's `current`.
Mount ==
  /\ ~mounted
  /\ mounted' = TRUE
  /\ IF saved # << >>
       THEN /\ initial' = saved[1].initial
            /\ current' = saved[1].current
            /\ resumeAvailable' = TRUE
            /\ pending' = TRUE
       ELSE UNCHANGED <<initial, current, resumeAvailable, pending>>
  /\ saved' = <<SaveData>>
  /\ RecomputeEffect
  /\ UNCHANGED <<selected, paused, difficulty, moves, games, fillVars,
                 genVars>>

\* handleCellSelect as it would be without its test of `initial`.
handleCellSelect_NoGuard(row, col) ==
  /\ Settled
  /\ selected' = <<row, col>>
  /\ UNCHANGED <<initial, current, errors, cleared, paused, resumeAvailable,
                 difficulty, saved, mounted, pending, moves, games,
                 fillVars, genVars>>

handleCellSelect(row, col) ==
  /\ Settled
  /\ initial[row][col] = null
  /\ selected' = <<row, col>>
  /\ UNCHANGED <<initial, current, errors, cleared, paused, resumeAvailable,
                 difficulty, saved, mounted, pending, moves, games,
                 fillVars, genVars>>

\* handleInput(value) from a number button or the erase button (value
\* null); the buttons are disabled while paused.
handleInput(value) ==
  /\ Settled
  /\ ~paused
  /\ moves < MaxMoves
  /\ selected # << >>
  /\ initial[selected[1]][selected[2]] = null
  /\ current' = [current EXCEPT ![selected[1]][selected[2]] = value]
  /\ pending' = TRUE
  /\ moves' = moves + 1
  /\ UNCHANGED <<initial, selected, errors, cleared, paused,
                 resumeAvailable, difficulty, saved, mounted, games,
                 fillVars, genVars>>

handleNewGame ==
  /\ Settled
  /\ games < MaxGames
  /\ \E p \in generateSudokuPuzzle(emptyCellsOf(difficulty)) :
       /\ initial' = p
       /\ current' = p
  /\ selected' = << >>
  /\ cleared' = FALSE
  /\ paused' = FALSE
  /\ resumeAvailable' = FALSE
  /\ saved' = << >>
  /\ pending' = TRUE
  /\ games' = games + 1
  /\ UNCHANGED <<errors, difficulty, mounted, moves, fillVars, genVars>>

\* The pause button is disabled while paused.
handlePause ==
  /\ Settled
  /\ ~paused
  /\ paused' = TRUE
  /\ resumeAvailable' = TRUE
  /\ saved' = <<SaveData>>
  /\ UNCHANGED <<initial, current, selected, errors, cleared, difficulty,
                 mounted, pending, moves, games, fillVars, genVars>>

\* The resume button is disabled unless paused or resumeAvailable.
handleResume ==
  /\ Settled
  /\ paused \/ resumeAvailable
  /\ paused' = FALSE
  /\ UNCHANGED <<initial, current, selected, errors, cleared,
                 resumeAvailable, difficulty, saved, mounted, pending,
                 moves, games, fillVars, genVars>>

\* The difficulty buttons (disabled while paused).
setDifficulty(d) ==
  /\ Settled
  /\ ~paused
  /\ difficulty' = d
  /\ UNCHANGED <<initial, current, selected, errors, cleared, paused,
                 resumeAvailable, saved, mounted, pending, moves, games,
                 fillVars, genVars>>

\* The page is loaded again: the component starts from its useState
\* initial values; localStorage stays.
Reload ==
  /\ mounted
  /\ games < MaxGames
  /\ initial' = samplePuzzle
  /\ current' = samplePuzzle
  /\ selected' = << >>
  /\ errors' = checkErrors(samplePuzzle)
  /\ cleared' = FALSE
  /\ paused' = FALSE
  /\ resumeAvailable' = FALSE
  /\ difficulty' = "normal"
  /\ mounted' = FALSE
  /\ pending' = FALSE
  /\ games' = games + 1
  /\ UNCHANGED <<saved, moves, fillVars, genVars>>

AppNext ==
  \/ Mount
  \/ Effects
  \/ \E row \in Idx, col \in Idx : handleCellSelect(row, col)
  \/ \E value \in Nums \cup {null} : handleInput(value)
  \/ handleNewGame
  \/ handlePause
  \/ handleResume
  \/ \E d \in {"easy", "normal", "hard"} : setDifficulty(d)
  \/ Reload

SpecApp == AppInit /\ [][AppNext]_vars

----------------------------------------------------------------------------
(* checkErrors and isCleared on given grids *)

\* The grids checkErrors and isCleared are applied to: the two valid filled
\* grids and the empty grid, each with up to k cells overwritten.
TestGrids[k \in 0 .. (N * N)] ==
  IF k = 0 THEN {Solved, Transposed, AllEmpty}
  ELSE TestGrids[k - 1] \cup
       { [g EXCEPT ![rc[1]][rc[2]] = v] :
           g \in TestGrids[k - 1], rc \in Cells, v \in 0 .. N }

\* The component holds the grid g as `current`; the render's effects have
\* not run yet.
CheckInit ==
  /\ current \in TestGrids[MaxEdits]
  /\ initial = current
  /\ selected = << >>
  /\ errors = [r \in Idx |-> Row(FALSE)]
  /\ cleared = FALSE
  /\ paused = FALSE
  /\ resumeAvailable = FALSE
  /\ difficulty = "normal"
  /\ saved = << >>
  /\ mounted = TRUE
  /\ pending = TRUE
  /\ moves = 0
  /\ games = 0
  /\ heap = << >>
  /\ board = << >>
  /\ stack = << >>
  /\ pc = "idle"
  /\ retval = FALSE
  /\ input = << >>
  /\ depthMax = 0
  /\ GenIdle

SpecCheck == CheckInit /\ [][Effects]_vars

----------------------------------------------------------------------------
(* Properties of fillBoard *)

\* The cells of each group: rows, columns, boxes.
Groups ==
  { {<<r, c>> : c \in Idx} : r \in Idx } \cup
  { {<<r, c>> : r \in Idx} : c \in Idx } \cup
  { {<<br * Box + i, bc * Box + j>> : i \in 0 .. (Box - 1),
                                     j \in 0 .. (Box - 1)} :
      br \in 0 .. (Box - 1), bc \in 0 .. (Box - 1) }

\* Every group holds each of 1..N exactly once (so no cell is null).
ValidFilled(g) ==
  \A G \in Groups : \A n \in Nums :
    Cardinality({ rc \in G : g[rc[1]][rc[2]] = n }) = 1

\* Two non-empty cells of one group hold the same value.
HasDuplicate(g) ==
  \E G \in Groups : \E p \in G, q \in G :
    p # q /\ g[p[1]][p[2]] # null /\ g[p[1]][p[2]] = g[q[1]][q[2]]

\* g with its null cells given the values f (f maps row-major indices).
Completed(g, f) ==
  [r \in Idx |-> [c \in Idx |->
     IF g[r][c] = null THEN f[r * N + c] ELSE g[r][c]]]

\* Some assignment of the null cells of g makes a valid filled grid.
HasCompletion(g) ==
  \E f \in [EmptyIdx(g) -> Nums] : ValidFilled(Completed(g, f))

\* C1: when fillBoard, started on the all-empty grid, returns true, the grid
\* has no empty cell and every row, column and box holds each value exactly
\* once, whatever the shuffles gave.
C1_FilledGridValid ==
  (pc = "done" /\ retval /\ input = AllEmpty)
    => ValidFilled(Deref(heap, board))

\* fillBoard has returned true on the empty grid with a first cell that is
\* not the first candidate in numeric order, and a grid that differs from
\* the sample grid.
C1_Witness ==
  /\ pc = "done" /\ retval /\ input = AllEmpty
  /\ Deref(heap, board)[0][0] = N
  /\ Deref(heap, board) # Solved

\* C5 as claimed: a pre-filled grid that already holds a duplicate in a row,
\* column or box makes fillBoard return false.
C5_DuplicateInputFails ==
  (pc = "done" /\ HasDuplicate(input)) => retval = FALSE

\* C6 as claimed: a pre-filled grid without any duplicate makes fillBoard
\* return true.
C6_ConsistentInputSucceeds ==
  (pc = "done" /\ ~HasDuplicate(input)) => retval = TRUE

\* C6 amended: on a pre-filled grid without any duplicate, fillBoard returns
\* true exactly when the grid has a valid completion.
C6_CompletableInputSucceeds ==
  (pc = "done" /\ ~HasDuplicate(input))
    => (retval = HasCompletion(input))

\* fillBoard has returned true on a duplicate-free grid with MaxEdits empty
\* cells, all of which it filled.
C6_Witness ==
  /\ pc = "done" /\ retval
  /\ ~HasDuplicate(input)
  /\ Cardinality(EmptyIdx(input)) = MaxEdits
  /\ ValidFilled(Deref(heap, board))

\* C7: started on the all-empty grid, fillBoard terminates and returns true
\* for every sequence of shuffles, and never has more than N*N recursive
\* calls nested inside the outermost call.
C7_EmptyGridTerminates ==
  /\ [](Activations - 1 <= N * N)
  /\ <>(pc = "done" /\ retval)

\* fillBoard has returned true on the empty grid and the nesting reached
\* N*N recursive calls inside the outermost one.
C7_Witness ==
  pc = "done" /\ retval /\ input = AllEmpty /\ depthMax - 1 = N * N

\* C11: the undo of the backtracking search is exact.  fillBoard never
\* changes a cell that is non-empty in its input grid; every step in which a
\* call of fillBoard, nested or outermost, returns false leaves the grid
\* cell for cell as that call was entered with it; and when the outermost
\* call has returned false the grid is the input grid.
C11_UndoExact ==
  /\ [](\A r \in Idx, c \in Idx :
          input[r][c] # null => Deref(heap, board)[r][c] = input[r][c])
  /\ [][(pc = "loop" /\ pc' = "ret" /\ ~retval')
          => Deref(heap', board') = Top.entry]_vars
  /\ []((pc = "done" /\ ~retval) => Deref(heap, board) = input)

\* A call nested at least two deep has returned false on a grid with a
\* given cell, after calls nested deeper than it had placed values, and the
\* grid is the one it was entered with: the input and the callers' values.
C11_Witness ==
  /\ pc = "ret" /\ ~retval
  /\ Len(stack) >= 2
  /\ depthMax >= Len(stack) + 3
  /\ \E r \in Idx, c \in Idx : input[r][c] # null
  /\ \A k \in EmptyIdx(input) :
       Deref(heap, board)[k \div N][k % N] # null
         <=> \E i \in 1 .. Len(stack) :
               stack[i].row = k \div N /\ stack[i].col = k % N

----------------------------------------------------------------------------
(* Properties of generateSudokuPuzzle *)

\* The row addresses of the grid b.
RowsOf(b) == { b[r] : r \in Idx }

\* The grid b has N row arrays of its own, none of them a row of a.
OwnRows(b, a) ==
  /\ Cardinality(RowsOf(b)) = N
  /\ RowsOf(b) \cap RowsOf(a) = {}

\* C2: generateSudokuPuzzle(n) returns a grid with exactly min(n, N*N) empty
\* cells whose other cells hold the values of the filled grid, for every
\* n >= 0 and every shuffle (n = 0: the filled grid; n >= N*N: the empty
\* grid, the loop ending at the end of the array).
C2_CarvedCount ==
  pc = "returned" =>
    LET p == Deref(heap, puzzle) IN
      /\ Cardinality(EmptyIdx(p)) = Min(emptyCells, N * N)
      /\ \A r \in Idx, c \in Idx :
           p[r][c] # null => p[r][c] = solution[r][c]
      /\ ValidFilled(solution)

\* generateSudokuPuzzle has returned the all-empty grid for a request above
\* the number of cells.
C2_Witness ==
  /\ pc = "returned"
  /\ emptyCells > N * N
  /\ Deref(heap, puzzle) = AllEmpty
  /\ count = N * N

\* C9 as claimed: after carving the filled grid that was carved is
\* unchanged, and the returned grid shares no row with the working grid.
C9_InputNeverMutated ==
  pc = "returned" =>
    /\ Deref(heap, board) = solution
    /\ OwnRows(puzzle, board)

\* C9 amended: carving blanks cells of the filled working grid in place (the
\* filled grid is kept only where it was not blanked); the returned grid
\* is a copy of the carved working grid made of N new row arrays, none of
\* them a row of the working grid, so that a later write to a row of one
\* grid is not a write to the other.
C9_ReturnsFullCopy ==
  pc = "returned" =>
    /\ OwnRows(puzzle, board)
    /\ Deref(heap, puzzle) = Deref(heap, board)
    /\ \A r \in Idx, c \in Idx :
         Deref(heap, board)[r][c] \in {null, solution[r][c]}
    /\ Cardinality(EmptyIdx(Deref(heap, board))) = count

\* generateSudokuPuzzle has returned after blanking cells of the working
\* grid, which no longer is the filled grid.
C9_Witness ==
  /\ pc = "returned"
  /\ count = MaxBlank
  /\ Deref(heap, board) # solution
  /\ Deref(heap, puzzle) = Deref(heap, board)

----------------------------------------------------------------------------
(* Properties of checkErrors, isCleared and the App component *)

\* The value at cell rc of g.
At(g, rc) == g[rc[1]][rc[2]]

\* Some other position of a group of rc holds the value of rc.
Duplicated(g, rc) ==
  \E G \in Groups : rc \in G /\ \E q \in G : q # rc /\ At(g, q) = At(g, rc)

\* C3: checkErrors(grid)[r][c] is true exactly when the cell is non-empty and
\* another position of its row, column or box holds the same value; so
\* empty cells are false and both cells of a duplicate pair are true.
C3_ConflictMapExact ==
  Settled =>
    \A rc \in Cells :
      At(errors, rc) = (At(current, rc) # null /\ Duplicated(current, rc))

\* checkErrors has flagged exactly two cells, a pair that shares a box but
\* neither a row nor a column, on a grid that has an empty cell.
C3_Witness ==
  /\ Settled
  /\ EmptyIdx(current) # {}
  /\ \E p \in Cells, q \in Cells :
       /\ p[1] # q[1] /\ p[2] # q[2]
       /\ At(current, p) = At(current, q)
       /\ { rc \in Cells : At(errors, rc) } = {p, q}

\* C4: isCleared(g, checkErrors(g)) is true exactly when no cell of g is
\* empty and no flag is true; so it is true on a valid filled grid and false
\* on the all-empty grid.
C4_ClearedExact ==
  Settled =>
    /\ cleared = (/\ \A rc \in Cells : At(current, rc) # null
                  /\ \A rc \in Cells : ~At(errors, rc))
    /\ ValidFilled(current) => cleared
    /\ current = AllEmpty => ~cleared

\* isCleared has returned true on a valid filled grid other than Solved.
C4_Witness ==
  Settled /\ cleared /\ ValidFilled(current) /\ current # Solved

\* C8: every given cell (non-empty in `initial`) holds in `current` the value
\* it has in `initial`, and the selected cell is never a given cell.
C8_GivenCellsKept ==
  /\ \A rc \in Cells :
       At(initial, rc) # null => At(current, rc) = At(initial, rc)
  /\ selected # << >> => At(initial, selected) = null

\* After a new game and MaxMoves inputs a cell is selected and `current`
\* differs from `initial`.
C8_Witness ==
  /\ Settled
  /\ games > 0 /\ moves = MaxMoves
  /\ selected # << >>
  /\ initial # samplePuzzle
  /\ current # initial

\* C10: once the effects of a render have run, errors is
\* checkErrors(current) and cleared is isCleared(current,
\* checkErrors(current)), after input, erase, new game and load alike.
C10_DerivedViewsFresh ==
  Settled =>
    /\ errors = checkErrors(current)
    /\ cleared = isCleared(current, checkErrors(current))

\* A saved game was loaded and completed: cleared has become true.
C10_Witness ==
  Settled /\ resumeAvailable /\ moves = MaxMoves /\ cleared

====
